---- MODULE Spec2Model ----
(***************************************************************************)
(* Model of utils/quote_manager.py (class QuoteManager), of                *)
(* utils/ibkr.py (connect_ib) and of utils/cleaners.py (clean_numeric).    *)
(*                                                                         *)
(* One QuoteManager object is shared by the caller threads.  A caller      *)
(* thread runs one public method at a time.  A method is cut into steps at *)
(* the calls that wait: taking the registry lock, IB.connect, the          *)
(* qualification round trip (IB.run) and IB.sleep.  The statements between *)
(* two such calls, request sends included (reqMarketDataType, reqMktData,  *)
(* cancelMktData, disconnect), form one step.                              *)
(*                                                                         *)
(* The upstream library (ib_insync) is the environment: a connect attempt  *)
(* and a qualification succeed or fail as the environment chooses, a       *)
(* connected session can drop at any time, and a request sent on a handle  *)
(* that is not connected raises.                                           *)
(***************************************************************************)
EXTENDS Integers, Sequences, FiniteSets, TLC

\* ---------------------------------------------------------------- bounds
NumCallers == 2
MaxConns == 2
MaxFeeds == 2
MaxVersion == 1

\* the concurrent callers, and one more thread for the caller of reset
Callers == 1..NumCallers
Resetter == NumCallers + 1
Threads == 1..Resetter

\* ------------------------------------------------------------- constants
LIVE == 1
DELAYED == 3

None == 0
NoSession == "none"

\* The instruments callers ask for: an equity (no expiry, strike, right)
\* and an option (all three given).
Instruments == {"STK", "OPT"}
IsOption(i) == i = "OPT"

\* The values get_market_session returns.
Sessions == {"regular", "pre", "after", "closed", "weekend", "holiday"}
\* The sessions the wall clock shows to the callers of the model: one that
\* asks for live data and one that asks for delayed data.
ClockSessions == {"regular", "closed"}
DelayedSessions == {"closed", "weekend", "holiday"}

\* ---------------------------------------------------- get_market_session
\* An instant of the Eastern wall clock, as get_market_session looks at it:
\* now_et.weekday() (Monday is 0), whether the NYSE schedule of the date has
\* a row, and the time of day in ticks since midnight.
TicksPerMinute == 2
At(h, m) == (h * 60 + m) * TicksPerMinute
TimesOfDay == 0 .. (At(24, 0) - 1)
Instants == [weekday : 0..6, scheduled : BOOLEAN, tod : TimesOfDay]
NoInstant == [weekday |-> 0, scheduled |-> FALSE, tod |-> 0]

\* faulty variant of get_market_session: the regular session is half open,
\* so 16:00:00 sharp falls through to the later tests
get_market_session_half_open(now) ==
    IF now.weekday >= 5 THEN "weekend"
    ELSE IF ~now.scheduled THEN "holiday"
    ELSE LET rth_start   == At(9, 30)
             rth_end     == At(16, 0)
             pre_start   == At(4, 0)
             pre_end     == rth_start
             after_start == rth_end
             after_end   == At(20, 0)
         IN IF rth_start <= now.tod /\ now.tod < rth_end THEN "regular"
            ELSE IF pre_start <= now.tod /\ now.tod < pre_end THEN "pre"
            ELSE IF after_start < now.tod /\ now.tod <= after_end THEN "after"
            ELSE "closed"

get_market_session(now) ==
    IF now.weekday >= 5 THEN "weekend"
    ELSE IF ~now.scheduled THEN "holiday"
    ELSE LET rth_start   == At(9, 30)
             rth_end     == At(16, 0)
             pre_start   == At(4, 0)
             pre_end     == rth_start
             after_start == rth_end
             after_end   == At(20, 0)
         IN IF rth_start <= now.tod /\ now.tod <= rth_end THEN "regular"
            ELSE IF pre_start <= now.tod /\ now.tod < pre_end THEN "pre"
            ELSE IF after_start < now.tod /\ now.tod <= after_end THEN "after"
            ELSE "closed"

\* faulty variant of DataMode: live data in regular hours only
DataModeRegularOnly(s) == IF s = "regular" THEN LIVE ELSE DELAYED

\* subscribe / set_market_data_type: the data mode requested for a session
\* (a missing session falls in the else branch).
DataMode(s) == IF s \in DelayedSessions THEN DELAYED ELSE LIVE

\* connect_ib: ports (outer loop) and client ids (inner loop).
Ports == <<4001, 7496, 4002, 7497>>
ClientIds == <<8, 9>>
NumCombos == Len(Ports) * Len(ClientIds)
\* faulty variant of Combo: client ids in the outer loop, ports in the inner
ComboClientOuter(k) == [port |-> Ports[(k % Len(Ports)) + 1],
                        cid |-> ClientIds[(k \div Len(Ports)) + 1]]

Combo(k) == [port |-> Ports[(k \div Len(ClientIds)) + 1],
             cid |-> ClientIds[(k % Len(ClientIds)) + 1]]

\* subscribe: SMART first, then the fallback venues for options.
Venues == <<"SMART", "BOX", "CBOE", "AMEX">>

\* get_quote: durations in units of 10 ms.  One pass of the poll loop sleeps
\* 0.05 s; the timeout parameter defaults to 2.5 s; 5 s are allowed when the
\* session is closed, weekend or holiday.
PollInterval == 5
DefaultHint == 250
DelayedTimeout == 500
\* the timeout arguments callers pass
Hints == {0, 7, DefaultHint, 600}

\* effective_timeout = 5 if session in ("closed", "weekend", "holiday")
\*                     else timeout
effective_timeout(session, timeout) ==
    IF session \in DelayedSessions THEN DelayedTimeout ELSE timeout

\* ------------------------------------------------------------- variables
VARIABLES
    ib,               \* self.ib: connection handle (None or an instance id)
    cache,            \* self.cache: key -> quote
    tickers,          \* self.tickers: key -> feed handle
    lock,             \* self.lock: holder thread or None
    current_session,  \* self.current_session
    version,          \* self.version
    conns,            \* IB instances created so far (by connect_ib)
    feeds,            \* upstream feeds opened so far (by reqMktData)
    th                \* per caller thread: position and local variables

mgr == <<ib, cache, tickers, lock, current_session, version>>
vars == <<ib, cache, tickers, lock, current_session, version, conns, feeds, th>>

\* ---------------------------------------------------------------- helpers
\* faulty variant of Key: the generation is left out of the key
KeyNoGen(i, g) == <<i, 0>>

Key(i, g) == <<i, g>>
Put(f, k, v) == [x \in (DOMAIN f) \cup {k} |-> IF x = k THEN v ELSE f[x]]
Del(f, k) == [x \in (DOMAIN f) \ {k} |-> f[x]]
Empty == << >>
Range(f) == {f[x] : x \in DOMAIN f}

Connected(c) == c # None /\ conns[c].connected
\* A feed delivers data while it is not cancelled and its session is up.
FeedLive(h) == ~feeds[h].cancelled /\ conns[feeds[h].conn].connected

\* the exception a request raises on handle c: None has no attributes, a
\* disconnected session refuses to send
SendError(c) == IF c = None THEN "AttributeError" ELSE "ConnectionError"

\* ------------------------------------------------------- ticker snapshots
\* The fields of a ticker hold integers: a price p stands for p price
\* units, chosen so that the midpoints of the prices used are whole.
\* None, float('nan') and the "no bid/ask" value of IBKR:
NoValue == -1000
NaN == -999
NoBidAsk == -1

\* clean_numeric(val) for val a number or None: NaN, None and -1 give None,
\* every other number gives itself as a float
clean_numeric(val) ==
    IF val = NoValue \/ val = NaN \/ val = NoBidAsk THEN NoValue ELSE val

\* the truth value of a float or None, and Python's `a or b`
Truthy(v) == v # NoValue /\ v # 0
Or(a, b) == IF Truthy(a) THEN a ELSE b

\* One Greek snapshot of a ticker (modelGreeks, lastGreeks, bidAskGreeks):
\* NoGreeks for None, else the computation with its price, its implied
\* volatility and its four sensitivities.  The sensitivities of the snapshot
\* numbered k are k+1..k+4, so that a value tells the snapshot it is from.
NoGreeks == [have |-> FALSE, optPrice |-> NoValue, impliedVol |-> NoValue,
             delta |-> NoValue, gamma |-> NoValue, vega |-> NoValue,
             theta |-> NoValue]
Greeks(k, price, iv) ==
    [have |-> TRUE, optPrice |-> price, impliedVol |-> iv,
     delta |-> k + 1, gamma |-> k + 2, vega |-> k + 3, theta |-> k + 4]

\* a ticker on which nothing has arrived
NoData == [secType |-> "none", last |-> NaN, delayedLast |-> NaN,
           bid |-> NaN, delayedBid |-> NaN, ask |-> NaN, delayedAsk |-> NaN,
           close |-> NaN, delayedClose |-> NaN, modelGreeks |-> NoGreeks,
           lastGreeks |-> NoGreeks, bidAskGreeks |-> NoGreeks]

\* ticker.modelGreeks or ticker.lastGreeks or ticker.bidAskGreeks; the
\* if / elif chain of get_quote selects the same snapshot
FirstGreeks(ticker) ==
    IF ticker.modelGreeks.have THEN ticker.modelGreeks
    ELSE IF ticker.lastGreeks.have THEN ticker.lastGreeks
    ELSE ticker.bidAskGreeks

\* faulty variant of compute_last: the session is not looked at, the
\* real-time last always goes first
compute_last_live_first(ticker, session) ==
    LET d_last == clean_numeric(ticker.delayedLast)
        r_last == clean_numeric(ticker.last)
        r_close == clean_numeric(ticker.close)
        d_close == clean_numeric(ticker.delayedClose)
        bid == Or(clean_numeric(ticker.bid), clean_numeric(ticker.delayedBid))
        ask == Or(clean_numeric(ticker.ask), clean_numeric(ticker.delayedAsk))
        mg == FirstGreeks(ticker)
        opt_price == clean_numeric(mg.optPrice)
        final_fallback == Or(r_close, d_close)
    IN IF Truthy(r_last) THEN r_last
       ELSE IF Truthy(d_last) THEN d_last
       ELSE IF Truthy(bid) /\ Truthy(ask) /\ bid > 0 /\ ask > 0
       THEN (bid + ask) \div 2
       ELSE IF ticker.secType = "OPT" /\ mg.have /\ Truthy(opt_price)
       THEN opt_price
       ELSE IF Truthy(final_fallback) THEN final_fallback
       ELSE NoValue

\* faulty variant of compute_last: the close goes before the midpoint and
\* the model price
compute_last_close_first(ticker, session) ==
    LET d_last == clean_numeric(ticker.delayedLast)
        r_last == clean_numeric(ticker.last)
        r_close == clean_numeric(ticker.close)
        d_close == clean_numeric(ticker.delayedClose)
        bid == Or(clean_numeric(ticker.bid), clean_numeric(ticker.delayedBid))
        ask == Or(clean_numeric(ticker.ask), clean_numeric(ticker.delayedAsk))
        mg == FirstGreeks(ticker)
        opt_price == clean_numeric(mg.optPrice)
        final_fallback == Or(r_close, d_close)
        first == IF session \in DelayedSessions THEN d_last ELSE r_last
        second == IF session \in DelayedSessions THEN r_last ELSE d_last
    IN IF Truthy(first) THEN first
       ELSE IF Truthy(second) THEN second
       ELSE IF Truthy(final_fallback) THEN final_fallback
       ELSE IF Truthy(bid) /\ Truthy(ask) /\ bid > 0 /\ ask > 0
       THEN (bid + ask) \div 2
       ELSE IF ticker.secType = "OPT" /\ mg.have /\ Truthy(opt_price)
       THEN opt_price
       ELSE NoValue

\* compute_last(ticker, session): the price of the ticker, or None
compute_last(ticker, session) ==
    LET d_last == clean_numeric(ticker.delayedLast)
        r_last == clean_numeric(ticker.last)
        r_close == clean_numeric(ticker.close)
        d_close == clean_numeric(ticker.delayedClose)
        bid == Or(clean_numeric(ticker.bid), clean_numeric(ticker.delayedBid))
        ask == Or(clean_numeric(ticker.ask), clean_numeric(ticker.delayedAsk))
        mg == FirstGreeks(ticker)
        opt_price == clean_numeric(mg.optPrice)
        final_fallback == Or(r_close, d_close)
        first == IF session \in DelayedSessions THEN d_last ELSE r_last
        second == IF session \in DelayedSessions THEN r_last ELSE d_last
    IN IF Truthy(first) THEN first
       ELSE IF Truthy(second) THEN second
       ELSE IF Truthy(bid) /\ Truthy(ask) /\ bid > 0 /\ ask > 0
       THEN (bid + ask) \div 2
       ELSE IF ticker.secType = "OPT" /\ mg.have /\ Truthy(opt_price)
       THEN opt_price
       ELSE IF Truthy(final_fallback) THEN final_fallback
       ELSE NoValue

\* time.time(), in a model that has no clock: the time of the call
Now == 1

\* faulty variant of BuildQuote: the implied volatility is read from the
\* last-trade snapshot whenever there is one
BuildQuoteMixed(ticker, session) ==
    LET mg == FirstGreeks(ticker)
    IN [last |-> compute_last(ticker, session),
        bid |-> Or(clean_numeric(ticker.bid), clean_numeric(ticker.delayedBid)),
        ask |-> Or(clean_numeric(ticker.ask), clean_numeric(ticker.delayedAsk)),
        close |-> Or(clean_numeric(ticker.close),
                     clean_numeric(ticker.delayedClose)),
        delta |-> mg.delta, gamma |-> mg.gamma, vega |-> mg.vega,
        theta |-> mg.theta,
        iv |-> IF ticker.lastGreeks.have THEN ticker.lastGreeks.impliedVol
               ELSE mg.impliedVol,
        timestamp |-> Now]

\* the quote get_quote builds when its loop has ended on ticker: last is the
\* synthetic_last of the final pass, the Greeks are those of the mg of the
\* final pass (None without mg)
BuildQuote(ticker, session) ==
    LET mg == FirstGreeks(ticker)
    IN [last |-> compute_last(ticker, session),
        bid |-> Or(clean_numeric(ticker.bid), clean_numeric(ticker.delayedBid)),
        ask |-> Or(clean_numeric(ticker.ask), clean_numeric(ticker.delayedAsk)),
        close |-> Or(clean_numeric(ticker.close),
                     clean_numeric(ticker.delayedClose)),
        delta |-> mg.delta, gamma |-> mg.gamma, vega |-> mg.vega,
        theta |-> mg.theta, iv |-> mg.impliedVol, timestamp |-> Now]

\* no quote (the thread has built none)
NoQuote == [last |-> NoValue, bid |-> NoValue, ask |-> NoValue,
            close |-> NoValue, delta |-> NoValue, gamma |-> NoValue,
            vega |-> NoValue, theta |-> NoValue, iv |-> NoValue,
            timestamp |-> NoValue]

\* the default_quote of safe_get_quote: every price and Greek is None, the
\* timestamp is the time of the call
default_quote == [last |-> NoValue, bid |-> NoValue, ask |-> NoValue,
                  close |-> NoValue, delta |-> NoValue, gamma |-> NoValue,
                  vega |-> NoValue, theta |-> NoValue, iv |-> NoValue,
                  timestamp |-> Now]

\* faulty variant of safe_get_quote: only ConnectionError is caught, and a
\* None from get_quote is passed on
safe_get_quote_narrow(k, q) ==
    IF k = "quote" THEN [kind |-> "quote", quote |-> q]
    ELSE IF k = "ConnectionError"
    THEN [kind |-> "quote", quote |-> default_quote]
    ELSE [kind |-> k, quote |-> NoQuote]

\* what safe_get_quote gives its caller when get_quote has ended with
\* outcome k (a quote q, None, or an exception)
safe_get_quote(k, q) ==
    IF k = "quote" THEN [kind |-> "quote", quote |-> q]
    ELSE [kind |-> "quote", quote |-> default_quote]

\* a caller thread that runs no method
Idle == [pc |-> "idle", op |-> "none", instr |-> "none", sess |-> NoSession,
         kver |-> 0, attempt |-> 0, cnew |-> None, lastOut |-> "none",
         qtried |-> << >>, exch |-> "none", old |-> None, snap |-> {},
         oldib |-> None, up |-> FALSE, cur |-> None, kind |-> "none",
         val |-> 0, hint |-> 0, elapsed |-> 0, raw |-> NoData,
         quote |-> NoQuote, now |-> NoInstant, inner |-> "none"]

Init ==
    /\ ib = None
    /\ cache = Empty
    /\ tickers = Empty
    /\ lock = None
    /\ current_session = NoSession
    /\ version = 0
    /\ conns = << >>
    /\ feeds = << >>
    /\ th = [t \in Threads |-> Idle]

\* ------------------------------------------------- upstream primitives
\* IB(): a fresh, unconnected instance
NewConn == [connected |-> FALSE, mode |-> 0]

\* IB.disconnect() on handle c (None: nothing to disconnect)
Disconnect(cs, c) == IF c = None THEN cs ELSE [cs EXCEPT ![c] = NewConn]

\* The feeds of hs leave the feed map; cancelMktData is sent for each when
\* sent is true (the handle is connected), and raises otherwise.
Release(hs, sent) ==
    [h \in DOMAIN feeds |->
        IF h \in hs
        THEN [feeds[h] EXCEPT !.released = TRUE, !.cancelled = @ \/ sent]
        ELSE feeds[h]]

\* The method of thread record r ends with result (k, v).  The locals of
\* the method go out of scope; what the caller observes of the call is kept
\* until Return.
Done(r, k, v) ==
    [Idle EXCEPT !.pc = "done", !.op = r.op, !.instr = r.instr, !.kind = k,
                 !.val = v,
                 !.sess = IF r.op = "subscribe" THEN r.sess ELSE NoSession,
                 !.kver = IF r.op = "subscribe" THEN r.kver ELSE 0,
                 !.qtried = IF r.op = "subscribe" THEN r.qtried ELSE << >>,
                 !.exch = IF r.op = "subscribe" THEN r.exch ELSE "none",
                 !.old = IF r.op = "subscribe" THEN r.old ELSE None,
                 !.attempt = IF r.op = "ensure_connected" THEN r.attempt ELSE 0,
                 !.lastOut = IF r.op = "ensure_connected" THEN r.lastOut
                             ELSE "none",
                 !.cnew = IF r.op \in {"ensure_connected", "reset"} THEN r.cnew
                          ELSE None,
                 !.snap = r.snap, !.oldib = r.oldib, !.up = r.up]

\* connect_ib(): ib = IB(), then the first pass of the loops
BeginConnect(r, c) == [r EXCEPT !.pc = "connect", !.cnew = c, !.attempt = 0]

\* -------------------------------------------------------------- subscribe
\* The part of subscribe before the lock: key, effective_session and the
\* forced reqMarketDataType.  r: the thread's record, eff: the effective
\* session, cs: the instances, c: the value of self.ib.
SubPrologue(t, r, eff, cs, c) ==
    IF c # None /\ cs[c].connected
    THEN /\ conns' = [cs EXCEPT ![c].mode = DataMode(eff)]
         /\ th' = [th EXCEPT ![t] = [r EXCEPT !.pc = "sub_lock", !.sess = eff,
                                              !.kver = version]]
    ELSE /\ conns' = cs
         /\ th' = [th EXCEPT ![t] = Done([r EXCEPT !.sess = eff,
                                                   !.kver = version],
                                         SendError(c), 0)]

\* subscribe(symbol, expiry, strike, right, session=s) called directly
Subscribe(t, i, s) ==
    /\ th[t].pc = "idle"
    /\ SubPrologue(t, [Idle EXCEPT !.op = "subscribe", !.instr = i],
                   IF s # NoSession THEN s ELSE current_session, conns, ib)
    /\ UNCHANGED <<mgr, feeds>>

\* get_quote after ensure_connected, on instance c with instances cs:
\* session = set_market_data_type(); self.current_session = session;
\* key; self.subscribe(symbol, expiry, strike, right)
GqAfterConnected(t, r, cs, c) ==
    \E s \in ClockSessions :
        /\ current_session' = s
        /\ SubPrologue(t, r, s, cs, c)

\* ------------------------------------------------------ ensure_connected
EnsureConnected(t) ==
    /\ th[t].pc = "idle"
    /\ IF Connected(ib)
       THEN /\ th' = [th EXCEPT ![t] =
                        Done([Idle EXCEPT !.op = "ensure_connected"], "ok", 0)]
            /\ conns' = conns
       ELSE /\ Len(conns) < MaxConns
            /\ conns' = Append(conns, NewConn)
            /\ th' = [th EXCEPT ![t] =
                        BeginConnect([Idle EXCEPT !.op = "ensure_connected"],
                                     Len(conns) + 1)]
    /\ UNCHANGED <<mgr, feeds>>

\* --------------------------------------------------------------- get_quote
\* get_quote(symbol, expiry, strike, right, timeout=timeout)
GetQuoteTimeout(t, i, timeout) ==
    /\ th[t].pc = "idle"
    /\ IF Connected(ib)
       THEN GqAfterConnected(t, [Idle EXCEPT !.op = "get_quote", !.instr = i,
                                             !.hint = timeout],
                             conns, ib)
       ELSE /\ Len(conns) < MaxConns
            /\ conns' = Append(conns, NewConn)
            /\ th' = [th EXCEPT ![t] =
                        BeginConnect([Idle EXCEPT !.op = "get_quote",
                                                  !.instr = i,
                                                  !.hint = timeout],
                                     Len(conns) + 1)]
            /\ current_session' = current_session
    /\ UNCHANGED <<ib, cache, tickers, lock, version, feeds>>

\* get_quote(symbol, expiry, strike, right): timeout takes its default
GetQuote(t, i) == GetQuoteTimeout(t, i, DefaultHint)

\* -------------------------------------------------------------- connect_ib
\* The caller's statements after connect_ib() has returned instance c at
\* combination k: self.ib = ..., then the rest of get_quote up to the lock,
\* or version += 1 in reset.
AfterConnect(t, k) ==
    LET c == th[t].cnew
        cs == [conns EXCEPT ![c].connected = TRUE]
        r == [th[t] EXCEPT !.attempt = k + 1, !.lastOut = "connected"]
    IN /\ ib' = c
       /\ IF th[t].op = "get_quote"
          THEN /\ GqAfterConnected(t, [th[t] EXCEPT !.cnew = None], cs, c)
               /\ version' = version
          ELSE /\ conns' = cs
               /\ th' = [th EXCEPT ![t] =
                           Done(r, "ok", IF r.op = "ensure_connected"
                                         THEN Combo(k).port ELSE 0)]
               /\ current_session' = current_session
               /\ version' = IF th[t].op = "reset" THEN version + 1
                             ELSE version

\* One pass of the loops succeeds: ib.disconnect(); ib.connect(port,
\* clientId); ib.isConnected() is true; return ib.
ConnectOk(t) ==
    /\ th[t].pc = "connect"
    /\ th[t].attempt < NumCombos
    /\ AfterConnect(t, th[t].attempt)
    /\ UNCHANGED <<cache, tickers, lock, feeds>>

\* faulty variant of ConnectFail: isConnected() is not queried, a connect
\* that returned is taken for a success
ConnectFailUnchecked(t, how) ==
    /\ th[t].pc = "connect"
    /\ th[t].attempt < NumCombos
    /\ LET r == [th[t] EXCEPT !.attempt = @ + 1, !.lastOut = how]
       IN IF how = "not connected"
          THEN /\ ib' = th[t].cnew
               /\ th' = [th EXCEPT ![t] = Done(r, "ok", 0)]
          ELSE /\ ib' = ib
               /\ th' = [th EXCEPT ![t] = IF r.attempt = NumCombos
                                          THEN Done(r, "ConnectionError", 0)
                                          ELSE r]
    /\ UNCHANGED <<cache, tickers, lock, current_session, version, conns, feeds>>

\* One pass fails: connect raised (caught, logged), or it returned and
\* isConnected() is false; time.sleep(0.2) and the next combination.  After
\* the last combination: raise ConnectionError.
ConnectFail(t, how) ==
    /\ th[t].pc = "connect"
    /\ th[t].attempt < NumCombos
    /\ LET r == [th[t] EXCEPT !.attempt = @ + 1, !.lastOut = how]
       IN th' = [th EXCEPT ![t] = IF r.attempt = NumCombos
                                  THEN Done(r, "ConnectionError", 0)
                                  ELSE r]
    /\ UNCHANGED <<mgr, conns, feeds>>

\* connect_ib to its end in one step: the passes before combination k fail
\* and pass k succeeds
ConnectReturns(t) ==
    /\ th[t].pc = "connect"
    /\ \E k \in th[t].attempt .. (NumCombos - 1) : AfterConnect(t, k)
    /\ UNCHANGED <<cache, tickers, lock, feeds>>

\* connect_ib to its end in one step: every pass fails, raise ConnectionError
ConnectExhausted(t) ==
    /\ th[t].pc = "connect"
    /\ th' = [th EXCEPT ![t] = Done([th[t] EXCEPT !.attempt = NumCombos,
                                                  !.lastOut = "raised"],
                                    "ConnectionError", 0)]
    /\ UNCHANGED <<mgr, conns, feeds>>

\* ------------------------------------------------- subscribe, under the lock
\* subscribe returns h (a feed handle or None) to its caller
SubReturn(r, h) ==
    IF r.op = "get_quote" /\ h # None
    THEN [r EXCEPT !.pc = "gq_poll", !.cur = h, !.qtried = << >>,
                   !.exch = "none", !.old = None]
    ELSE Done(r, IF h = None THEN "nil" ELSE "feed", h)

\* key in self.tickers, same session: reuse
SubReuse(t) ==
    /\ th[t].pc = "sub_lock"
    /\ lock = None
    /\ Key(th[t].instr, th[t].kver) \in DOMAIN tickers
    /\ feeds[tickers[Key(th[t].instr, th[t].kver)]].tag = th[t].sess
    /\ th' = [th EXCEPT ![t] =
                SubReturn(th[t], tickers[Key(th[t].instr, th[t].kver)])]
    /\ UNCHANGED <<mgr, conns, feeds>>

\* faulty variant of SubRefresh: the stale feed is neither cancelled nor
\* removed before the new qualification
SubRefreshKeep(t) ==
    /\ th[t].pc = "sub_lock"
    /\ lock = None
    /\ Key(th[t].instr, th[t].kver) \in DOMAIN tickers
    /\ feeds[tickers[Key(th[t].instr, th[t].kver)]].tag # th[t].sess
    /\ lock' = t
    /\ th' = [th EXCEPT ![t].pc = "sub_qual",
                        ![t].old = tickers[Key(th[t].instr, th[t].kver)]]
    /\ UNCHANGED <<ib, cache, tickers, current_session, version, conns, feeds>>

\* key in self.tickers, session changed: cancelMktData, del, then qualify
SubRefresh(t) ==
    /\ th[t].pc = "sub_lock"
    /\ lock = None
    /\ Key(th[t].instr, th[t].kver) \in DOMAIN tickers
    /\ feeds[tickers[Key(th[t].instr, th[t].kver)]].tag # th[t].sess
    /\ IF Connected(ib)
       THEN /\ feeds' = Release({tickers[Key(th[t].instr, th[t].kver)]}, TRUE)
            /\ tickers' = Del(tickers, Key(th[t].instr, th[t].kver))
            /\ lock' = t
            /\ th' = [th EXCEPT ![t].pc = "sub_qual",
                                ![t].old = tickers[Key(th[t].instr, th[t].kver)]]
       ELSE /\ UNCHANGED <<feeds, tickers, lock>>
            /\ th' = [th EXCEPT ![t] = Done(th[t], SendError(ib), 0)]
    /\ UNCHANGED <<ib, cache, current_session, version, conns>>

\* faulty variant of SubMiss: the lookup and the creation are not under
\* the lock
SubMissNoLock(t) ==
    /\ th[t].pc = "sub_lock"
    /\ Key(th[t].instr, th[t].kver) \notin DOMAIN tickers
    /\ th' = [th EXCEPT ![t].pc = "sub_qual"]
    /\ UNCHANGED <<mgr, conns, feeds>>

\* key not in self.tickers: qualify
SubMiss(t) ==
    /\ th[t].pc = "sub_lock"
    /\ lock = None
    /\ Key(th[t].instr, th[t].kver) \notin DOMAIN tickers
    /\ lock' = t
    /\ th' = [th EXCEPT ![t].pc = "sub_qual"]
    /\ UNCHANGED <<ib, cache, tickers, current_session, version, conns, feeds>>

\* safe_qualify at the next venue succeeds; reqMktData on the qualified
\* contract, ticker._session = effective_session, self.tickers[key] = ticker
SubQualifyOk(t) ==
    /\ th[t].pc = "sub_qual"
    /\ Connected(ib)
    /\ Len(feeds) < MaxFeeds
    /\ LET venue == Venues[Len(th[t].qtried) + 1]
           h == Len(feeds) + 1
           r == [th[t] EXCEPT !.qtried = Append(@, venue), !.exch = venue]
       IN /\ feeds' = Append(feeds, [instr |-> r.instr, gen |-> r.kver,
                                     tag |-> r.sess, conn |-> ib,
                                     cancelled |-> FALSE, released |-> FALSE])
          /\ tickers' = Put(tickers, Key(r.instr, r.kver), h)
          /\ th' = [th EXCEPT ![t] = SubReturn(r, h)]
    /\ lock' = None
    /\ UNCHANGED <<ib, cache, current_session, version, conns>>

\* faulty variant of SubQualifyFail: the fallback venues are tried for
\* every instrument
SubQualifyFailAnyInstr(t) ==
    /\ th[t].pc = "sub_qual"
    /\ LET n == Len(th[t].qtried) + 1
           r == [th[t] EXCEPT !.qtried = Append(@, Venues[n])]
           r2 == IF n < Len(Venues) THEN r ELSE SubReturn(r, None)
       IN /\ th' = [th EXCEPT ![t] = r2]
          /\ lock' = IF r2.pc = "sub_qual" THEN lock ELSE None
    /\ UNCHANGED <<ib, cache, tickers, current_session, version, conns, feeds>>

\* faulty variant of SubQualifyFail: exhausting the venues raises
SubQualifyFailRaises(t) ==
    /\ th[t].pc = "sub_qual"
    /\ LET n == Len(th[t].qtried) + 1
           r == [th[t] EXCEPT !.qtried = Append(@, Venues[n])]
           more == IsOption(r.instr) /\ n < Len(Venues)
           r2 == IF more THEN r ELSE Done(r, "ValueError", 0)
       IN /\ th' = [th EXCEPT ![t] = r2]
          /\ lock' = IF r2.pc = "sub_qual" THEN lock ELSE None
    /\ UNCHANGED <<ib, cache, tickers, current_session, version, conns, feeds>>

\* faulty variant of SubQualifyFail: the return of None does not release
\* the lock
SubQualifyFailKeepsLock(t) ==
    /\ th[t].pc = "sub_qual"
    /\ LET n == Len(th[t].qtried) + 1
           r == [th[t] EXCEPT !.qtried = Append(@, Venues[n])]
           more == IsOption(r.instr) /\ n < Len(Venues)
           r2 == IF n > 1 /\ ib = None THEN Done(r, "AttributeError", 0)
                 ELSE IF more THEN r
                 ELSE SubReturn(r, None)
       IN th' = [th EXCEPT ![t] = r2]
    /\ UNCHANGED <<ib, cache, tickers, lock, current_session, version, conns,
                   feeds>>

\* safe_qualify at the next venue returns None (not connected, empty
\* result, timeout or error).  An option goes on to the next fallback venue
\* after self.ib.sleep(0.1); when no venue is left subscribe returns None.
SubQualifyFail(t) ==
    /\ th[t].pc = "sub_qual"
    /\ LET n == Len(th[t].qtried) + 1
           r == [th[t] EXCEPT !.qtried = Append(@, Venues[n])]
           more == IsOption(r.instr) /\ n < Len(Venues)
           r2 == IF n > 1 /\ ib = None THEN Done(r, "AttributeError", 0)
                 ELSE IF more THEN r
                 ELSE SubReturn(r, None)
       IN /\ th' = [th EXCEPT ![t] = r2]
          /\ lock' = IF r2.pc = "sub_qual" THEN lock ELSE None
    /\ UNCHANGED <<ib, cache, tickers, current_session, version, conns, feeds>>

\* ------------------------------------------------- get_quote: poll loop
\* A pass that does not end the loop (the quote is not complete and the
\* timeout has not run out) changes nothing but for its self.ib.sleep(0.05),
\* which raises when self.ib is None.
GqPollSleepNoHandle(t) ==
    /\ th[t].pc = "gq_poll"
    /\ ib = None
    /\ th' = [th EXCEPT ![t] = Done(th[t], "AttributeError", 0)]
    /\ UNCHANGED <<mgr, conns, feeds>>

\* break (data ready or timeout); self.cache[key] = quote; return quote
GqPollDone(t) ==
    /\ th[t].pc = "gq_poll"
    /\ cache' = Put(cache, Key(th[t].instr, th[t].kver), "quote")
    /\ th' = [th EXCEPT ![t] = Done(th[t], "quote", th[t].cur)]
    /\ UNCHANGED <<ib, tickers, lock, current_session, version, conns, feeds>>

\* The poll loop pass by pass.  What the ticker holds at a pass is up to the
\* upstream session, which updates the ticker while the caller sleeps: a
\* pass sees any of these snapshots of an instrument of type i.
PollSnapshots(i) ==
    LET none == [NoData EXCEPT !.secType = i]
    IN {none,
        [none EXCEPT !.last = 50],
        [none EXCEPT !.bid = 10, !.ask = 12],
        [none EXCEPT !.modelGreeks = Greeks(10, 30, 40)],
        [none EXCEPT !.last = 50, !.modelGreeks = Greeks(10, 30, NaN)],
        [none EXCEPT !.last = 50, !.lastGreeks = Greeks(20, NoValue, NoValue)],
        [none EXCEPT !.last = 50, !.modelGreeks = Greeks(10, 30, 40)],
        [none EXCEPT !.last = 50, !.lastGreeks = Greeks(20, 32, 41),
                     !.bidAskGreeks = Greeks(30, 34, 42)],
        [none EXCEPT !.last = 50, !.bidAskGreeks = Greeks(30, 34, 42)],
        [none EXCEPT !.last = 50, !.modelGreeks = Greeks(10, 30, 40),
                     !.lastGreeks = Greeks(20, 32, 41),
                     !.bidAskGreeks = Greeks(30, 34, 42)]}

\* has_price and (not is_option or has_greeks), where has_greeks is defined
PollComplete(ticker, session) ==
    /\ compute_last(ticker, session) # NoValue
    /\ \/ ticker.secType # "OPT"
       \/ FirstGreeks(ticker).have /\ FirstGreeks(ticker).impliedVol # NaN

\* has_greeks: math.isnan(None) raises TypeError when the selected snapshot
\* has no implied volatility
IsnanRaises(ticker) ==
    FirstGreeks(ticker).have /\ FirstGreeks(ticker).impliedVol = NoValue

\* what the caller of get_quote observes when the loop has ended at
\* elapsed on ticker with result (k, v)
PollDone(r, ticker, k, v) ==
    [Done(r, k, v) EXCEPT !.sess = r.sess, !.kver = r.kver, !.hint = r.hint,
                          !.elapsed = r.elapsed, !.raw = ticker,
                          !.quote = IF k = "quote"
                                    THEN BuildQuote(ticker, current_session)
                                    ELSE NoQuote]

\* faulty variant of GqPoll: the timeout is not checked
GqPollNoTimeout(t, ticker) ==
    /\ th[t].pc = "gq_poll"
    /\ ticker.secType = th[t].instr
    /\ IF IsnanRaises(ticker)
       THEN /\ th' = [th EXCEPT ![t] = PollDone(th[t], ticker, "TypeError", 0)]
            /\ cache' = cache
       ELSE IF PollComplete(ticker, current_session)
       THEN /\ th' = [th EXCEPT ![t] =
                        PollDone(th[t], ticker, "quote", th[t].cur)]
            /\ cache' = Put(cache, Key(th[t].instr, th[t].kver),
                            BuildQuote(ticker, current_session))
       ELSE IF ib = None
       THEN /\ th' = [th EXCEPT ![t] =
                        PollDone(th[t], ticker, "AttributeError", 0)]
            /\ cache' = cache
       ELSE /\ th' = [th EXCEPT ![t].elapsed = @ + PollInterval,
                                ![t].raw = ticker]
            /\ cache' = cache
    /\ UNCHANGED <<ib, tickers, lock, current_session, version, conns, feeds>>

\* One pass of the loop on a ticker that holds snapshot ticker: elapsed,
\* synthetic_last, mg, has_price, has_greeks (which may raise), then break on
\* a complete quote or on the timeout, else self.ib.sleep(0.05), which
\* raises when self.ib is None.  After break: quote, self.cache[key] = quote,
\* return quote.
GqPoll(t, ticker) ==
    /\ th[t].pc = "gq_poll"
    /\ ticker.secType = th[t].instr
    /\ IF IsnanRaises(ticker)
       THEN /\ th' = [th EXCEPT ![t] = PollDone(th[t], ticker, "TypeError", 0)]
            /\ cache' = cache
       ELSE IF \/ PollComplete(ticker, current_session)
               \/ th[t].elapsed >= effective_timeout(th[t].sess, th[t].hint)
       THEN /\ th' = [th EXCEPT ![t] =
                        PollDone(th[t], ticker, "quote", th[t].cur)]
            /\ cache' = Put(cache, Key(th[t].instr, th[t].kver),
                            BuildQuote(ticker, current_session))
       ELSE IF ib = None
       THEN /\ th' = [th EXCEPT ![t] =
                        PollDone(th[t], ticker, "AttributeError", 0)]
            /\ cache' = cache
       ELSE /\ th' = [th EXCEPT ![t].elapsed = @ + PollInterval,
                                ![t].raw = ticker]
            /\ cache' = cache
    /\ UNCHANGED <<ib, tickers, lock, current_session, version, conns, feeds>>

\* compute_last(ticker, session) called on its own
ComputeLast(t, ticker, session) ==
    /\ th[t].pc = "idle"
    /\ th' = [th EXCEPT ![t] =
                [Idle EXCEPT !.pc = "done", !.op = "compute_last",
                             !.sess = session, !.raw = ticker,
                             !.kind = "price",
                             !.val = compute_last(ticker, session)]]
    /\ UNCHANGED <<mgr, conns, feeds>>

\* -------------------------------------------------------------------- reset
\* faulty variant of Reset: the result cache is not cleared
ResetKeepsCache(t) ==
    /\ th[t].pc = "idle"
    /\ version < MaxVersion
    /\ Len(conns) < MaxConns
    /\ feeds' = Release(Range(tickers), Connected(ib))
    /\ tickers' = Empty
    /\ current_session' = NoSession
    /\ conns' = Append(Disconnect(conns, ib), NewConn)
    /\ ib' = None
    /\ th' = [th EXCEPT ![t] =
                BeginConnect([Idle EXCEPT !.op = "reset",
                                          !.snap = Range(tickers),
                                          !.oldib = ib,
                                          !.up = Connected(ib)],
                             Len(conns) + 1)]
    /\ UNCHANGED <<cache, lock, version>>

\* cancelMktData for every tracked ticker (errors logged), clear tickers,
\* cache and current_session, disconnect, self.ib = None, ensure_connected()
Reset(t) ==
    /\ th[t].pc = "idle"
    /\ version < MaxVersion
    /\ Len(conns) < MaxConns
    /\ feeds' = Release(Range(tickers), Connected(ib))
    /\ tickers' = Empty
    /\ cache' = Empty
    /\ current_session' = NoSession
    /\ conns' = Append(Disconnect(conns, ib), NewConn)
    /\ ib' = None
    /\ th' = [th EXCEPT ![t] =
                BeginConnect([Idle EXCEPT !.op = "reset",
                                          !.snap = Range(tickers),
                                          !.oldib = ib,
                                          !.up = Connected(ib)],
                             Len(conns) + 1)]
    /\ UNCHANGED <<lock, version>>

\* --------------------------------------------------------------- cancel_all
\* faulty variant of CancelAll: the connection is not looked at before the
\* cancels are sent, and a cancel that raises is not caught
CancelAllUnguarded(t) ==
    /\ th[t].pc = "idle"
    /\ IF Connected(ib) \/ tickers = Empty
       THEN /\ feeds' = Release(Range(tickers), Connected(ib))
            /\ tickers' = Empty
            /\ th' = [th EXCEPT ![t] =
                        Done([Idle EXCEPT !.op = "cancel_all"], "ok", 0)]
       ELSE /\ UNCHANGED <<feeds, tickers>>
            /\ th' = [th EXCEPT ![t] =
                        Done([Idle EXCEPT !.op = "cancel_all"],
                             SendError(ib), 0)]
    /\ UNCHANGED <<ib, cache, lock, current_session, version, conns>>

\* not connected: self.tickers.clear(); else cancelMktData and pop for
\* every tracked ticker
CancelAll(t) ==
    /\ th[t].pc = "idle"
    /\ feeds' = Release(Range(tickers), Connected(ib))
    /\ tickers' = Empty
    /\ th' = [th EXCEPT ![t] = Done([Idle EXCEPT !.op = "cancel_all"], "ok", 0)]
    /\ UNCHANGED <<ib, cache, lock, current_session, version, conns>>

\* cancel_all on a connection that is up at `self.ib.isConnected()` and
\* drops during the loop: the cancels of the feeds in sent went out, the
\* later ones raise and are logged, every key is popped
CancelAllDrop(t) ==
    /\ th[t].pc = "idle"
    /\ Connected(ib)
    /\ tickers # Empty
    /\ \E sent \in SUBSET Range(tickers) :
        /\ sent # Range(tickers)
        /\ feeds' = [h \in DOMAIN feeds |->
                        IF h \in Range(tickers)
                        THEN [feeds[h] EXCEPT !.released = TRUE,
                                              !.cancelled = @ \/ h \in sent]
                        ELSE feeds[h]]
    /\ conns' = Disconnect(conns, ib)
    /\ tickers' = Empty
    /\ th' = [th EXCEPT ![t] = Done([Idle EXCEPT !.op = "cancel_all"], "ok", 0)]
    /\ UNCHANGED <<ib, cache, lock, current_session, version>>

\* ------------------------------------------------------------------- cancel
\* key = (symbol, expiry, strike, right): the key carries no version
CancelKey(i) == <<i>>

Cancel(t, i) ==
    /\ th[t].pc = "idle"
    /\ LET r == [Idle EXCEPT !.op = "cancel", !.instr = i]
       IN IF CancelKey(i) \in DOMAIN tickers
          THEN IF Connected(ib)
               THEN /\ feeds' = Release({tickers[CancelKey(i)]}, TRUE)
                    /\ tickers' = Del(tickers, CancelKey(i))
                    /\ th' = [th EXCEPT ![t] = Done(r, "ok", 0)]
               ELSE /\ UNCHANGED <<feeds, tickers>>
                    /\ th' = [th EXCEPT ![t] = Done(r, SendError(ib), 0)]
          ELSE /\ UNCHANGED <<feeds, tickers>>
               /\ th' = [th EXCEPT ![t] = Done(r, "ok", 0)]
    /\ UNCHANGED <<ib, cache, lock, current_session, version, conns>>

\* ---------------------------------------------------------- safe_get_quote
\* The get_quote call that safe_get_quote wraps has ended; safe_get_quote
\* returns its quote, or default_quote when it returned None or raised.
\* inner keeps how get_quote ended.
SafeGetQuoteReturns(t) ==
    /\ th[t].pc = "done"
    /\ th[t].op = "get_quote"
    /\ LET res == safe_get_quote(th[t].kind, th[t].quote)
       IN th' = [th EXCEPT ![t].op = "safe_get_quote",
                           ![t].inner = th[t].kind,
                           ![t].kind = res.kind,
                           ![t].quote = res.quote]
    /\ UNCHANGED <<mgr, conns, feeds>>

\* ---------------------------------------------------- get_market_session
\* get_market_session() called at instant now: it reads the clock and the
\* calendar and touches no field of the manager
GetMarketSession(t, now) ==
    /\ th[t].pc = "idle"
    /\ th' = [th EXCEPT ![t] =
                [Idle EXCEPT !.pc = "done", !.op = "get_market_session",
                             !.kind = "session", !.now = now,
                             !.sess = get_market_session(now)]]
    /\ UNCHANGED <<mgr, conns, feeds>>

\* ------------------------------------------------------------ environment
\* the upstream session of instance c drops
Drop(c) ==
    /\ c \in DOMAIN conns
    /\ conns[c].connected
    /\ conns' = Disconnect(conns, c)
    /\ UNCHANGED <<mgr, feeds, th>>

\* the caller takes the result; its thread is free for the next call
Return(t) ==
    /\ th[t].pc = "done"
    /\ th' = [th EXCEPT ![t] = Idle]
    /\ UNCHANGED <<mgr, conns, feeds>>

\* ----------------------------------------------------------- specifications
\* the steps of subscribe and of the poll loop
Advance(t) ==
    \/ SubReuse(t)
    \/ SubRefresh(t)
    \/ SubMiss(t)
    \/ SubQualifyOk(t)
    \/ SubQualifyFail(t)
    \/ GqPollDone(t)
    \/ Return(t)

\* the instrument the concurrent callers compete for
Shared == "OPT"

\* Spec: concurrent callers of get_quote (all for the same instrument),
\* reset and cancel_all.
Next ==
    \/ \E t \in Callers :
        \/ GetQuote(t, Shared)
        \/ Reset(t)
        \/ CancelAll(t)
        \/ ConnectReturns(t)
        \/ ConnectExhausted(t)
        \/ GqPollSleepNoHandle(t)
        \/ Advance(t)
    \/ \E c \in 1..MaxConns : Drop(c)

Spec == Init /\ [][Next]_vars

\* SpecSeq: one caller, one call after the other, every public method.
NextSeq ==
    \/ EnsureConnected(1)
    \/ \E i \in Instruments : GetQuote(1, i)
    \/ \E i \in Instruments, s \in ClockSessions \cup {NoSession} :
          Subscribe(1, i, s)
    \/ Reset(1)
    \/ CancelAll(1)
    \/ \E i \in Instruments : Cancel(1, i)
    \/ ConnectReturns(1)
    \/ ConnectExhausted(1)
    \/ Advance(1)
    \/ \E c \in 1..MaxConns : Drop(c)

SpecSeq == Init /\ [][NextSeq]_vars

\* SpecConnect: concurrent callers of ensure_connected and reset, connect_ib
\* pass by pass.
NextConnect ==
    \/ \E t \in Callers :
        \/ EnsureConnected(t)
        \/ Reset(t)
        \/ ConnectOk(t)
        \/ \E how \in {"raised", "not connected"} : ConnectFail(t, how)
        \/ Return(t)
    \/ \E c \in 1..MaxConns : Drop(c)

SpecConnect == Init /\ [][NextConnect]_vars

\* SpecStale: concurrent callers of get_quote and one more thread that calls
\* reset while they are in flight.
NextStale ==
    \/ \E t \in Callers :
        \/ GetQuote(t, Shared)
        \/ GqPollSleepNoHandle(t)
        \/ Advance(t)
    \/ Reset(Resetter)
    \/ \E t \in Threads :
        \/ ConnectReturns(t)
        \/ ConnectExhausted(t)
    \/ Return(Resetter)

SpecStale == Init /\ [][NextStale]_vars

\* SpecPoll: one call of get_quote on a fresh manager, with any timeout
\* argument, its poll loop pass by pass.
NextPoll ==
    \/ \E i \in Instruments, timeout \in Hints : GetQuoteTimeout(1, i, timeout)
    \/ ConnectReturns(1)
    \/ ConnectExhausted(1)
    \/ SubMiss(1)
    \/ SubQualifyOk(1)
    \/ SubQualifyFail(1)
    \/ \E i \in Instruments : \E ticker \in PollSnapshots(i) : GqPoll(1, ticker)

SpecPoll == Init /\ [][NextPoll]_vars

\* the tickers and sessions compute_last is called on
LastTickers ==
    [secType : Instruments,
     last : {NaN, NoBidAsk, 0, 50}, delayedLast : {NaN, 0, 60},
     bid : {NaN, 0, -2, 10}, delayedBid : {NaN, 20},
     ask : {NaN, NoBidAsk, 12}, delayedAsk : {NaN, 24},
     close : {NaN, 0, 40}, delayedClose : {NaN, 42},
     modelGreeks : {NoGreeks, Greeks(10, NoValue, 40), Greeks(10, 30, 40)},
     lastGreeks : {NoGreeks, Greeks(20, 32, 41)},
     bidAskGreeks : {NoGreeks, Greeks(30, 34, 42)}]
LastSessions == Sessions \cup {NoSession}

\* SpecLast: compute_last on every ticker of LastTickers in every session.
NextLast ==
    \/ /\ th[1].pc = "idle"
       /\ \E ticker \in LastTickers, session \in LastSessions :
             ComputeLast(1, ticker, session)
    \/ Return(1)

SpecLast == Init /\ [][NextLast]_vars

\* what a pass of the loop sees in SpecLive: nothing yet, or a complete quote
LiveSnapshots(i) ==
    {[NoData EXCEPT !.secType = i],
     [NoData EXCEPT !.secType = i, !.last = 50,
                    !.modelGreeks = Greeks(10, 30, 40)]}

\* the wall clock of SpecLive shows regular trading hours
RegularHours == current_session' # "closed"

\* a step that takes thread t further in the call it is running, and the
\* steps among them that wait for the registry lock
Continue(t) ==
    \/ ConnectReturns(t) /\ RegularHours
    \/ ConnectExhausted(t)
    \/ SubQualifyOk(t)
    \/ SubQualifyFail(t)
    \/ \E ticker \in LiveSnapshots(Shared) : GqPoll(t, ticker)
TakeLock(t) ==
    \/ SubReuse(t)
    \/ SubMiss(t)

\* SpecLive: two callers that call get_quote once each, for the same
\* instrument and with a timeout of 0.07 s, while a third thread calls
\* cancel_all and reset.  Every
\* upstream primitive returns (a connect attempt, a qualification and a
\* sleep end), so a thread inside a call goes on taking steps; a thread that
\* waits for the lock gets it if the lock is free again and again.
NextLive ==
    \/ \E t \in Callers :
        \/ GetQuoteTimeout(t, Shared, 7) /\ RegularHours
        \/ Continue(t)
        \/ TakeLock(t)
    \/ Reset(Resetter)
    \/ CancelAll(Resetter)
    \/ Continue(Resetter)
    \/ Return(Resetter)

SpecLive ==
    /\ Init
    /\ [][NextLive]_vars
    /\ \A t \in Threads : WF_vars(Continue(t)) /\ SF_vars(TakeLock(t))

\* SpecModes: one caller of subscribe, with every session as argument and
\* with none, and of get_quote.
NextModes ==
    \/ \E i \in Instruments : GetQuote(1, i)
    \/ \E i \in Instruments, s \in Sessions \cup {NoSession} :
          Subscribe(1, i, s)
    \/ ConnectReturns(1)
    \/ ConnectExhausted(1)
    \/ Advance(1)
    \/ \E c \in 1..MaxConns : Drop(c)

SpecModes == Init /\ [][NextModes]_vars

\* SpecCancel: one caller of get_quote and cancel_all, with connection drops
\* between the calls and during cancel_all.
NextCancel ==
    \/ \E i \in Instruments : GetQuote(1, i)
    \/ CancelAll(1)
    \/ CancelAllDrop(1)
    \/ ConnectReturns(1)
    \/ ConnectExhausted(1)
    \/ Advance(1)
    \/ \E c \in 1..MaxConns : Drop(c)

SpecCancel == Init /\ [][NextCancel]_vars

\* SpecClock: get_market_session at every instant of a week, on dates with
\* and without a scheduled session.
NextClock ==
    \/ th[1].pc = "idle" /\ \E now \in Instants : GetMarketSession(1, now)
    \/ Return(1)

SpecClock == Init /\ [][NextClock]_vars

\* SpecSafe: one call of safe_get_quote on a fresh manager, with any timeout
\* argument: the get_quote call it wraps, its poll loop pass by pass, and
\* the return through the wrapper.
NextSafe ==
    \/ NextPoll
    \/ SafeGetQuoteReturns(1)

SpecSafe == Init /\ [][NextSafe]_vars

\* ================================================================ claims

\* the feeds whose entry no removal (session change, cancel, cancel_all,
\* reset) has taken out of the feed map
Unreleased == {h \in DOMAIN feeds : ~feeds[h].released}

\* C1: callers that subscribe with the same (instrument, session) within one
\* generation share one feed: of the feeds opened for one (instrument,
\* generation, session) at most one has not been removed from the feed map
\* since, so reqMktData is not sent a second time while the first feed is
\* tracked, and callers that hold handles for the same (instrument, session,
\* generation) hold the identical handle.  Checked under Spec.
C1_OneFeedPerKey ==
    /\ \A h1 \in Unreleased, h2 \in Unreleased :
          (/\ feeds[h1].instr = feeds[h2].instr
           /\ feeds[h1].gen = feeds[h2].gen
           /\ feeds[h1].tag = feeds[h2].tag) => h1 = h2
    /\ \A t1 \in Threads, t2 \in Threads :
          (/\ th[t1].pc = "gq_poll" /\ th[t2].pc = "gq_poll"
           /\ th[t1].instr = th[t2].instr
           /\ th[t1].sess = th[t2].sess
           /\ th[t1].kver = th[t2].kver
           /\ th[t1].cur \in Unreleased /\ th[t2].cur \in Unreleased)
          => th[t1].cur = th[t2].cur

\* C1 witness: two callers poll the same handle, the only feed opened
C1_Witness ==
    /\ th[1].pc = "gq_poll" /\ th[2].pc = "gq_poll"
    /\ th[1].sess = th[2].sess /\ th[1].kver = th[2].kver
    /\ th[1].cur = th[2].cur
    /\ th[1].cur \in Unreleased
    /\ Len(feeds) = 1

\* a subscribe call of thread t that has returned to its caller
SubscribeDone(t) == th[t].pc = "done" /\ th[t].op = "subscribe"

ResetEnds(t) ==
    th[t].op = "reset" /\ th[t].pc = "connect" /\ th'[t].pc = "done"

\* C3 as stated: every reset call that ends has increased version by exactly
\* 1.  Checked under SpecSeq.
C3_Original ==
    [][\A t \in Threads : ResetEnds(t) => version' = version + 1]_vars

C6_Original ==
    Cardinality({c \in DOMAIN conns : conns[c].connected}) <= 1

\* an ensure_connected call of thread t that runs connect_ib takes a step
ConnectStep(t) ==
    th[t].op = "ensure_connected" /\ th[t].pc = "connect" /\ th'[t] # th[t]

\* C7: ensure_connected returns with self.ib connected, or raises
\* ConnectionError; it raises exactly when the last of the port and client id
\* combinations has failed; a pass whose connect returned with the handle
\* not connected is a failed pass, followed by the next combination.
\* Checked under SpecConnect.
C7_ConnectOrRaise ==
    [][\A t \in Threads :
          /\ (th[t].pc = "idle" /\ th'[t].op = "ensure_connected"
                 /\ th'[t].pc = "done")
             => (th'[t].kind = "ok" /\ ib' # None /\ conns'[ib'].connected)
          /\ ConnectStep(t) =>
                /\ th'[t].attempt = th[t].attempt + 1
                /\ th'[t].pc = "done" =>
                      \/ /\ th'[t].kind = "ok"
                         /\ th'[t].lastOut = "connected"
                         /\ ib' = th[t].cnew
                         /\ conns'[ib'].connected
                      \/ /\ th'[t].kind = "ConnectionError"
                         /\ th'[t].lastOut # "connected"
                         /\ th'[t].attempt = NumCombos
                         /\ ~conns'[th[t].cnew].connected
                /\ th'[t].pc # "done" =>
                      /\ th'[t].pc = "connect"
                      /\ th'[t].lastOut # "connected"
                      /\ th'[t].attempt < NumCombos
                      /\ ~conns'[th[t].cnew].connected]_vars

\* C7 witness: every combination was tried and ConnectionError raised
C7_Witness ==
    /\ th[1].pc = "done" /\ th[1].op = "ensure_connected"
    /\ th[1].kind = "ConnectionError"
    /\ th[1].attempt = NumCombos
    /\ th[1].lastOut = "not connected"

\* an ensure_connected call of thread t has returned the instance connect_ib
\* connected
ConnectedAt(t) ==
    /\ th[t].pc = "done" /\ th[t].op = "ensure_connected"
    /\ th[t].kind = "ok" /\ th[t].attempt > 0

\* C8 as stated: a handle bound to port 7496 is returned after exactly two
\* connect attempts.  Checked under SpecConnect.
C8_Original ==
    \A t \in Threads : (ConnectedAt(t) /\ th[t].val = 7496) => th[t].attempt = 2

\* C8 amended: port 4001 is tried first, with client ids 8 and 9, then port
\* 7496 with the same two ids: a handle bound to 4001 is returned after one
\* or two attempts, a handle bound to 7496 after three or four.  Checked
\* under SpecConnect.
C8_Amended ==
    \A t \in Threads :
        ConnectedAt(t) =>
            /\ th[t].val = 4001 <=> th[t].attempt \in {1, 2}
            /\ th[t].val = 7496 <=> th[t].attempt \in {3, 4}

\* C8 witness: both passes at 4001 failed, the first pass at 7496 succeeded
C8_Witness == ConnectedAt(1) /\ th[1].val = 7496 /\ th[1].attempt = 3

\* C9: the venues are tried in the order SMART, BOX, CBOE, AMEX, none
\* skipped or repeated, and the first success ends the attempts: the feed
\* is opened on the contract of the last venue tried (CBOE after exactly
\* three attempts); an equity is tried at SMART only; nil is returned only
\* after the last venue.  Checked under SpecSeq.
C9_VenueOrder ==
    \A t \in Threads :
        /\ Len(th[t].qtried) <= Len(Venues)
        /\ \A n \in 1..Len(th[t].qtried) : th[t].qtried[n] = Venues[n]
        /\ ~IsOption(th[t].instr) => Len(th[t].qtried) <= 1
        /\ (SubscribeDone(t) /\ th[t].kind = "feed" /\ th[t].qtried # << >>)
           => /\ th[t].exch = th[t].qtried[Len(th[t].qtried)]
              /\ th[t].exch = "CBOE" <=> Len(th[t].qtried) = 3
        /\ (SubscribeDone(t) /\ th[t].kind = "nil")
           => Len(th[t].qtried) =
                 (IF IsOption(th[t].instr) THEN Len(Venues) ELSE 1)

\* C9 witness: SMART and BOX failed, CBOE succeeded
C9_Witness ==
    /\ SubscribeDone(1) /\ th[1].kind = "feed"
    /\ th[1].qtried = <<"SMART", "BOX", "CBOE">>
    /\ th[1].exch = "CBOE"

\* C10: the step at which the last venue fails returns nil from subscribe
\* and from get_quote (no exception), opens no feed, adds no feed map entry
\* and leaves cache, connection and version as they are; and no step of a
\* subscribe call between its lookup and its return touches the entry or
\* the feed of another instrument, the cache, self.ib or version.  Checked
\* under SpecSeq.
C10_AllVenuesFail ==
    [][\A t \in Threads :
          /\ (th[t].pc = "sub_qual" /\ th'[t].pc = "done")
             => /\ th'[t].kind = IF th[t].op = "subscribe" /\ feeds' # feeds
                                 THEN "feed" ELSE "nil"
                /\ th'[t].kind = "nil" =>
                      /\ feeds' = feeds
                      /\ tickers' = tickers
                      /\ Key(th[t].instr, th[t].kver) \notin DOMAIN tickers'
                      /\ conns' = conns
          /\ (th[t].pc \in {"sub_lock", "sub_qual"})
             => /\ \A k \in DOMAIN tickers :
                      k[1] # th[t].instr =>
                          /\ k \in DOMAIN tickers'
                          /\ tickers'[k] = tickers[k]
                          /\ feeds'[tickers[k]] = feeds[tickers[k]]
                /\ cache' = cache
                /\ ib' = ib
                /\ version' = version]_vars

\* C10 witness: get_quote has returned no quote for the option while the
\* equity has a tracked feed and a cached quote
C10_Witness ==
    /\ th[1].pc = "done" /\ th[1].op = "get_quote" /\ th[1].kind = "nil"
    /\ IsOption(th[1].instr)
    /\ \E k \in DOMAIN tickers : k[1] = "STK"
    /\ \E k \in DOMAIN cache : k[1] = "STK"

\* the quote q of an instrument of type i is complete: it has a price and,
\* for an option, an implied volatility
QuoteComplete(q, i) ==
    /\ q.last # NoValue
    /\ IsOption(i) => q.iv # NoValue /\ q.iv # NaN

\* thread t takes a step of its poll loop
PollStep(t) == th[t].pc = "gq_poll" /\ th'[t] # th[t]

\* the pass thread t is about to make finds the effective timeout elapsed
TimedOut(t) == th[t].elapsed >= effective_timeout(th[t].sess, th[t].hint)

\* C11: a pass of the poll loop made before the effective timeout has
\* elapsed ends the loop only with a quote that has a price and, for an
\* option, Greeks; on a ticker that does not yet give such a quote the pass
\* leaves the caller polling.
C11_Original ==
    [][\A t \in Threads :
        PollStep(t) /\ ~TimedOut(t) =>
            /\ th'[t].pc = "done" =>
                  /\ th'[t].kind = "quote"
                  /\ QuoteComplete(th'[t].quote, th'[t].instr)
            /\ ~QuoteComplete(BuildQuote(th'[t].raw, current_session),
                              th[t].instr) =>
                  th'[t].pc = "gq_poll"]_vars

\* C12: a pass of the poll loop that finds the effective timeout elapsed on a
\* ticker that does not give a complete quote raises nothing: get_quote
\* returns a quote, and that quote is in the cache under the instrument and
\* the generation the call read when it built its key.
C12_Original ==
    [][\A t \in Threads :
        /\ PollStep(t)
        /\ TimedOut(t)
        /\ ~QuoteComplete(BuildQuote(th'[t].raw, current_session), th[t].instr)
        => /\ th'[t].pc = "done"
           /\ th'[t].kind = "quote"
           /\ Key(th[t].instr, th[t].kver) \in DOMAIN cache'
           /\ cache'[Key(th[t].instr, th[t].kver)] = th'[t].quote]_vars

\* C13: once the feed is there, the poll loop ends within the effective
\* timeout plus one sleep of 0.05 s, whatever the ticker shows: every pass is
\* made less than one sleep after the timeout, and a pass that finds the
\* timeout elapsed is the last one.
C13_PollBound ==
    [][\A t \in Threads :
        PollStep(t) =>
            /\ th[t].elapsed
                  < effective_timeout(th[t].sess, th[t].hint) + PollInterval
            /\ TimedOut(t) => th'[t].pc = "done"]_vars

\* a call whose loop has ended after the effective timeout, within the sleep
\* that was running when the timeout elapsed
C13_Witness ==
    \E t \in Threads :
        /\ th[t].pc = "done"
        /\ th[t].op = "get_quote"
        /\ th[t].kind = "quote"
        /\ th[t].elapsed > effective_timeout(th[t].sess, th[t].hint)

\* C14: whatever timeout a caller passes, the effective timeout of a call
\* made in a closed, weekend or holiday session is longer than the effective
\* timeout the same argument gets in a regular, pre or after session.
C14_Original ==
    \A t \in Threads :
        th[t].pc = "gq_poll" /\ th[t].sess \in DelayedSessions =>
            \A s \in Sessions \ DelayedSessions :
                effective_timeout(th[t].sess, th[t].hint)
                    > effective_timeout(s, th[t].hint)

\* C15: every call of get_quote ends: a caller that is inside get_quote,
\* wherever it is (connecting, waiting for the registry lock, qualifying or
\* polling), eventually has its result or its exception, whatever the other
\* callers of get_quote and the callers of cancel_all and reset do meanwhile.
C15_GetQuoteEnds ==
    \A t \in Callers :
        (th[t].op = "get_quote" /\ th[t].pc # "done") ~> (th[t].pc = "done")

\* two callers are inside get_quote at once, one holding the registry lock
\* and one waiting for it, while the connection handle has been reset
C15_Witness ==
    \E t, u \in Callers :
        /\ th[t].pc = "sub_qual" /\ lock = t
        /\ th[u].pc = "sub_lock"
        /\ version > 0

\* C16: a call of get_quote ends with a quote, with nil, or with the
\* ConnectionError of a connection that could not be established; no other
\* exception leaves it, whatever other callers of get_quote and reset do.
C16_Original ==
    \A t \in Threads :
        th[t].op = "get_quote" /\ th[t].pc = "done" =>
            th[t].kind \in {"quote", "nil", "ConnectionError"}

\* a ticker field carries a value: a number, other than the -1 of "no
\* bid/ask" and other than zero (None, NaN, -1 and 0 all count as absent)
Present(v) == v # NoValue /\ v # NaN /\ v # NoBidAsk /\ v # 0

\* thread t has the result of a compute_last call
LastDone(t) == th[t].pc = "done" /\ th[t].op = "compute_last"

\* C17: in a closed, weekend or holiday session compute_last returns the
\* delayed last when it is present and else the real-time last when that is
\* present; in any other session it returns the real-time last when it is
\* present and else the delayed last when that is present.  With a last
\* present the result is therefore one of the two lasts, whatever bid, ask,
\* Greeks and close the ticker carries.
C17_LastDecides ==
    \A t \in Threads :
        LastDone(t) =>
            LET dl == th[t].raw.delayedLast
                rl == th[t].raw.last
                delayed == th[t].sess \in DelayedSessions
            IN /\ delayed /\ Present(dl) => th[t].val = dl
               /\ delayed /\ ~Present(dl) /\ Present(rl) => th[t].val = rl
               /\ ~delayed /\ Present(rl) => th[t].val = rl
               /\ ~delayed /\ ~Present(rl) /\ Present(dl) => th[t].val = dl

\* on a holiday, a ticker with both lasts, bid, ask, close and model Greeks
\* gives the delayed last
C17_Witness ==
    \E t \in Threads :
        /\ LastDone(t)
        /\ th[t].sess = "holiday"
        /\ th[t].raw.delayedLast = 60 /\ th[t].raw.last = 50
        /\ th[t].raw.bid = 10 /\ th[t].raw.ask = 12 /\ th[t].raw.close = 40
        /\ th[t].raw.modelGreeks.have
        /\ th[t].val = 60

\* the side of the book compute_last uses: the real-time value when it is
\* present, else the delayed value
Side(rt, dl) == IF Present(rt) THEN rt ELSE dl

\* C18: when neither last is present compute_last returns, in this order:
\* the midpoint of bid and ask when both sides are present and positive; for
\* an option only, the model price of the Greek snapshot of the ticker (the
\* model Greeks, else the last-trade Greeks, else the bid/ask Greeks); the
\* real-time close, else the delayed close; and None, with no error, when
\* none of these is present.
C18_Fallbacks ==
    \A t \in Threads :
        LastDone(t) /\ ~Present(th[t].raw.last)
                    /\ ~Present(th[t].raw.delayedLast) =>
            LET k == th[t].raw
                b == Side(k.bid, k.delayedBid)
                a == Side(k.ask, k.delayedAsk)
                mid == Present(b) /\ Present(a) /\ b > 0 /\ a > 0
                g == IF k.modelGreeks.have THEN k.modelGreeks
                     ELSE IF k.lastGreeks.have THEN k.lastGreeks
                     ELSE k.bidAskGreeks
                model == k.secType = "OPT" /\ g.have /\ Present(g.optPrice)
            IN /\ th[t].kind = "price"
               /\ mid => 2 * th[t].val = b + a
               /\ ~mid /\ model => th[t].val = g.optPrice
               /\ ~mid /\ ~model /\ Present(k.close) => th[t].val = k.close
               /\ ~mid /\ ~model /\ ~Present(k.close)
                       /\ Present(k.delayedClose) =>
                     th[t].val = k.delayedClose
               /\ ~mid /\ ~model /\ ~Present(k.close)
                       /\ ~Present(k.delayedClose) =>
                     th[t].val = NoValue

\* an option without lasts and without a positive bid, with no model Greeks
\* but with last-trade Greeks and a close: the price is the model price of
\* the last-trade Greeks
C18_Witness ==
    \E t \in Threads :
        /\ LastDone(t)
        /\ ~Present(th[t].raw.last) /\ ~Present(th[t].raw.delayedLast)
        /\ th[t].raw.secType = "OPT"
        /\ th[t].raw.bid = -2 /\ th[t].raw.ask = 12
        /\ ~th[t].raw.modelGreeks.have
        /\ th[t].raw.lastGreeks.have
        /\ th[t].raw.close = 40
        /\ th[t].val = 32

\* thread t has the quote its get_quote call returned
QuoteDone(t) ==
    th[t].pc = "done" /\ th[t].op = "get_quote" /\ th[t].kind = "quote"

\* the five Greeks of quote q are those of Greek snapshot g
GreeksFrom(q, g) ==
    /\ q.delta = g.delta /\ q.gamma = g.gamma /\ q.vega = g.vega
    /\ q.theta = g.theta /\ q.iv = g.impliedVol

\* C19: the five Greeks of a returned quote come from one snapshot of the
\* ticker the loop ended on: the model Greeks when present, else the
\* last-trade Greeks, else the bid/ask Greeks; all five are None when the
\* ticker has none of the three.
C19_OneSnapshot ==
    \A t \in Threads :
        QuoteDone(t) =>
            LET k == th[t].raw
                q == th[t].quote
            IN IF k.modelGreeks.have THEN GreeksFrom(q, k.modelGreeks)
               ELSE IF k.lastGreeks.have THEN GreeksFrom(q, k.lastGreeks)
               ELSE IF k.bidAskGreeks.have THEN GreeksFrom(q, k.bidAskGreeks)
               ELSE /\ q.delta = NoValue /\ q.gamma = NoValue
                    /\ q.vega = NoValue /\ q.theta = NoValue
                    /\ q.iv = NoValue

\* a quote built on a ticker without model Greeks but with last-trade and
\* bid/ask Greeks: all its Greeks are the last-trade ones
C19_Witness ==
    \E t \in Threads :
        /\ QuoteDone(t)
        /\ ~th[t].raw.modelGreeks.have
        /\ th[t].raw.lastGreeks.have
        /\ th[t].raw.bidAskGreeks.have
        /\ GreeksFrom(th[t].quote, th[t].raw.lastGreeks)
        /\ th[t].quote.iv = 41

\* C20: every quote returned for an equity has delta, gamma, vega, theta and
\* iv None, whatever the ticker of its feed holds.
C20_Original ==
    \A t \in Threads :
        QuoteDone(t) /\ ~IsOption(th[t].instr) =>
            /\ th[t].quote.delta = NoValue /\ th[t].quote.gamma = NoValue
            /\ th[t].quote.vega = NoValue /\ th[t].quote.theta = NoValue
            /\ th[t].quote.iv = NoValue

\* a step opens an upstream feed (reqMktData), and the feed it opens
Opens == Len(feeds') > Len(feeds)
Opened == feeds'[Len(feeds')]

CancelAllStep(t) == th[t].pc = "idle" /\ th'[t].op = "cancel_all"

\* C22: cancel_all never raises and leaves the feed map empty.  Without a
\* connected handle it sends nothing: no feed is cancelled upstream and the
\* connections are as they were.  With a connected handle every tracked feed
\* leaves the map, and every one is cancelled upstream unless the connection
\* is lost during the call.
C22_CancelAll ==
    [][\A t \in Threads :
        CancelAllStep(t) =>
            /\ th'[t].pc = "done" /\ th'[t].kind = "ok"
            /\ tickers' = Empty
            /\ \A h \in Range(tickers) : feeds'[h].released
            /\ ~Connected(ib) =>
                  /\ conns' = conns
                  /\ \A h \in DOMAIN feeds :
                        feeds'[h].cancelled = feeds[h].cancelled
            /\ Connected(ib) /\ conns'[ib].connected =>
                  \A h \in Range(tickers) : feeds'[h].cancelled]_vars

\* cancel_all has returned after the connection was lost during its loop:
\* a feed whose cancel did not go out has left the map all the same
C22_Witness ==
    \E t \in Threads :
        /\ th[t].pc = "done" /\ th[t].op = "cancel_all" /\ th[t].kind = "ok"
        /\ tickers = Empty
        /\ \E h \in DOMAIN feeds : feeds[h].released /\ ~feeds[h].cancelled
        /\ \E h \in DOMAIN feeds : feeds[h].released /\ feeds[h].cancelled

\* thread t makes the one step of cancel(i)
CancelStep(t, i) ==
    th[t].pc = "idle" /\ th'[t].op = "cancel" /\ th'[t].instr = i

\* C23: cancel(i), called on a live connection while a feed for i is tracked
\* under the current generation, removes the entry of that feed from the feed
\* map and cancels the feed upstream.
C23_Original ==
    [][\A t \in Threads, i \in Instruments :
        (/\ CancelStep(t, i)
         /\ Key(i, version) \in DOMAIN tickers
         /\ Connected(ib)) =>
            /\ Key(i, version) \notin DOMAIN tickers'
            /\ feeds'[tickers[Key(i, version)]].cancelled]_vars

\* get_market_session has returned to thread t
ClockDone(t) == th[t].pc = "done" /\ th[t].op = "get_market_session"

\* C24: get_market_session maps every instant to one session: Saturday and
\* Sunday to weekend; any other day without a scheduled session to holiday;
\* on the remaining days 09:30 to 16:00, both ends included, to regular,
\* 04:00 up to but excluding 09:30 to pre, after 16:00 up to and including
\* 20:00 to after, and every other time to closed.
C24_SessionOfInstant ==
    \A t \in Threads :
        ClockDone(t) =>
            LET now  == th[t].now
                s    == th[t].sess
                open == now.weekday \notin {5, 6} /\ now.scheduled
            IN /\ s \in Sessions
               /\ (s = "weekend") = (now.weekday \in {5, 6})
               /\ (s = "holiday") =
                     (now.weekday \notin {5, 6} /\ ~now.scheduled)
               /\ (s = "regular") =
                     (open /\ now.tod \in At(9, 30) .. At(16, 0))
               /\ (s = "pre") =
                     (open /\ now.tod \in At(4, 0) .. (At(9, 30) - 1))
               /\ (s = "after") =
                     (open /\ now.tod \in (At(16, 0) + 1) .. At(20, 0))
               /\ (s = "closed") =
                     (open /\ (now.tod < At(4, 0) \/ now.tod > At(20, 0)))

\* 16:00:00 sharp on a trading Monday is regular
C24_Witness ==
    \E t \in Threads :
        /\ ClockDone(t)
        /\ th[t].now = [weekday |-> 0, scheduled |-> TRUE, tod |-> At(16, 0)]
        /\ th[t].sess = "regular"

\* thread t holds the registry lock during the step: it held the lock when
\* the step began, or it holds it when the step ends
HoldsLock(t) == th'[t] # th[t] /\ (lock = t \/ lock' = t)

\* C25: every step that changes the feed map (the insertion and the removal
\* in subscribe, the removal in cancel and in cancel_all, the replacement in
\* reset) is made by a thread that holds the registry lock.
C25_Original ==
    [][tickers' # tickers => \E t \in Threads : HoldsLock(t)]_vars

\* subscribe, called by thread t, finds the key tracked with the requested
\* session and returns the tracked handle
Reuses(t) ==
    /\ th[t].pc = "sub_lock"
    /\ th'[t].pc \in {"gq_poll", "done"}
    /\ Key(th[t].instr, th[t].kver) \in DOMAIN tickers

Reused(t) == tickers[Key(th[t].instr, th[t].kver)]

\* C26: a feed handle that subscribe returns for reuse, and that get_quote
\* then polls, was opened on the connection instance the manager holds.
C26_Original ==
    [][\A t \in Threads : Reuses(t) => feeds[Reused(t)].conn = ib]_vars

\* the keys of the feed map and of the result cache
Keys == DOMAIN tickers \cup DOMAIN cache

\* C27: in every reachable state every key of the feed map and of the result
\* cache carries the current value of the generation counter.
C27_Original == \A k \in Keys : k[2] = version

\* C27, amended: no key of the feed map or of the result cache carries a
\* generation above the counter, and a step that stores a key stores it under
\* the generation the storing call read when it computed its key: the current
\* one unless the counter was incremented while the call was in flight.
C27_Amended ==
    [][/\ \A k \in Keys' : k[2] <= version'
       /\ \A k \in Keys' \ Keys :
             \E t \in Threads :
                 /\ th'[t] # th[t]
                 /\ th[t].op \in {"get_quote", "subscribe"}
                 /\ k[1] = th[t].instr
                 /\ k[2] = th[t].kver
                 /\ th[t].kver <= version]_vars

\* a get_quote call that computed its key before the counter was incremented
\* has stored its feed and its quote under the old generation
C27_Witness ==
    /\ \E k \in DOMAIN tickers : k[2] < version
    /\ \E k \in DOMAIN cache : k[2] < version

\* C28: at every pass of the poll loop of a get_quote call, the session
\* passed to compute_last (the shared field current_session, as the pass
\* reads it) is the session the polled feed is tagged with.
C28_Original ==
    [][\A t \in Threads :
        (PollStep(t) /\ th[t].op = "get_quote") =>
            current_session = feeds[th[t].cur].tag]_vars

\* C29: when an upstream feed is opened, the data mode last requested on the
\* connection it is opened on is the mode of the session the feed is tagged
\* with, under any interleaving of the callers.
C29_Original ==
    [][Opens => conns[Opened.conn].mode = DataMode(Opened.tag)]_vars

\* the ten fields of a quote
QuoteFields == {"last", "bid", "ask", "close", "delta", "gamma", "vega",
                "theta", "iv", "timestamp"}

\* safe_get_quote has returned to thread t
SafeDone(t) == th[t].pc = "done" /\ th[t].op = "safe_get_quote"

\* C30: safe_get_quote never raises and never returns None.  What it returns
\* is a quote with all ten fields; when get_quote raised (ConnectionError
\* included) or returned None, every price and every Greek of it is None and
\* only the timestamp is set.
C30_SafeGetQuote ==
    \A t \in Threads :
        SafeDone(t) =>
            /\ th[t].kind = "quote"
            /\ DOMAIN th[t].quote = QuoteFields
            /\ th[t].inner # "quote" =>
                  /\ \A f \in QuoteFields \ {"timestamp"} :
                        th[t].quote[f] = NoValue
                  /\ th[t].quote.timestamp # NoValue

\* safe_get_quote has returned the default quote after a ConnectionError of
\* get_quote
C30_Witness ==
    \E t \in Threads :
        /\ SafeDone(t)
        /\ th[t].inner = "ConnectionError"
        /\ th[t].quote = default_quote

====
